---- MODULE Spec2Model ----
(***************************************************************************)
(* Model of simulation-threshold.py: a Monte Carlo estimate of the         *)
(* probability that some quorum of a layered validator set reaches a       *)
(* corruption threshold.                                                   *)
(*                                                                         *)
(* Spec    models one call of simulate(), one step per loop body.          *)
(* SpecFn  models direct calls of the two pure helpers,                    *)
(*         create_random_corrupted_combination and split_into_layers.      *)
(***************************************************************************)
EXTENDS Integers, Sequences, FiniteSets

VARIABLES
    pc,                   \* position inside simulate()
    iterations,           \* argument of simulate
    number_of_layers,     \* argument of simulate
    quorum_size,          \* argument of simulate
    generator,            \* which generator line 88 iterates over
    number_of_corrupted,  \* keyword argument of fixed_corrupted_generator
    corrupted_thresholds, \* the counter list of simulate (index 0..validators_count)
    yielded,              \* values the corrupted-count generator has yielded so far
    combination,          \* loop variable of line 138
    quorum_idx,           \* quorums of `combination` taken from split_into_layers so far
    result,               \* the dict simulate returns
    iteration_start,      \* history: corrupted_thresholds when `combination` was drawn
    scenario_hits,        \* history: per threshold, combinations drawn with a quorum reaching it
    fn_pc,                \* position of the direct helper calls
    fn_validators,        \* number_of_validators passed to create_random_corrupted_combination
    fn_corrupted,         \* number_of_corrupted passed to create_random_corrupted_combination
    fn_quorum,            \* quorum_size passed to split_into_layers
    fn_combination,       \* value returned by create_random_corrupted_combination
    fn_layers             \* slices yielded by split_into_layers, in yield order

sim_vars == <<pc, iterations, number_of_layers, quorum_size, generator,
              number_of_corrupted, corrupted_thresholds, yielded, combination,
              quorum_idx, result, iteration_start, scenario_hits>>
fn_vars == <<fn_pc, fn_validators, fn_corrupted, fn_quorum, fn_combination, fn_layers>>
vars == <<sim_vars, fn_vars>>

----------------------------------------------------------------------------
(* Bounds of the explored inputs *)
MaxIterations == 2
MaxLayers == 2
MaxQuorumSize == 3
MaxValidators == 6

----------------------------------------------------------------------------
(* Pure helpers *)

Min(a, b) == IF a <= b THEN a ELSE b

Range(s) == {s[i] : i \in 1..Len(s)}

\* Python's sum() over a list of integers
RECURSIVE Sum(_)
Sum(s) == IF s = << >> THEN 0 ELSE Head(s) + Sum(Tail(s))

\* list concatenation of a list of lists, in order
RECURSIVE Concat(_)
Concat(ss) == IF ss = << >> THEN << >> ELSE Head(ss) \o Concat(Tail(ss))

\* split_into_layers with the slice validators[i:i + quorum_size - 1]
split_into_layers_short(validators, q) ==
    [j \in 1..((Len(validators) + q - 1) \div q) |->
        SubSeq(validators, (j - 1) * q + 1, Min(j * q - 1, Len(validators)))]

\* for i in range(0, len(validators), quorum_size): yield validators[i:i + quorum_size]
\* The j-th value yielded starts at 0-based index (j-1)*quorum_size; a Python
\* slice is cut at the end of the list.
split_into_layers(validators, q) ==
    [j \in 1..((Len(validators) + q - 1) \div q) |->
        SubSeq(validators, (j - 1) * q + 1, Min(j * q, Len(validators)))]

\* sampling WITH replacement: the k draws may repeat an index
random_sample_repeating(population, k) ==
    {S \in SUBSET population : Cardinality(S) <= k /\ (k > 0 => S # {})}

\* random.sample(population, k), k <= len(population): the possible sets of
\* the k distinct elements drawn
random_sample(population, k) ==
    {S \in SUBSET population : Cardinality(S) = k}

\* The possible return values of create_random_corrupted_combination
create_random_corrupted_combination(n, k) ==
    IF k >= n
    THEN {[i \in 1..n |-> 1]}
    ELSE {[i \in 1..n |-> IF (i - 1) \in S THEN 1 ELSE 0] :
             S \in random_sample(0..(n - 1), k)}

\* for _ in range(iterations + 1): yield number_of_corrupted
fixed_corrupted_generator(n, its, c) == [i \in 1..(its + 1) |-> c]

\* np.random.binomial(n, ratio, iterations): `iterations` draws, each in 0..n.
\* Length and value range of the array the generator iterates over.
binom_corrupted_generator_len(n, its) == its
binom_corrupted_generator_values(n) == 0..n

\* how many values the generator chosen at line 88 yields
generator_len(g, n, its, c) ==
    IF g = "fixed" THEN Len(fixed_corrupted_generator(n, its, c))
                   ELSE binom_corrupted_generator_len(n, its)

\* the values the next() of the generator chosen at line 88 can yield
generator_values(g, n, its, c) ==
    IF g = "fixed" THEN Range(fixed_corrupted_generator(n, its, c))
                   ELSE binom_corrupted_generator_values(n)

\* range(min_threshold, max_threshold + 1), as the ascending list it iterates
threshold_range_from_to(min_threshold, max_threshold) ==
    [i \in 1..(IF max_threshold >= min_threshold
               THEN max_threshold - min_threshold + 1 ELSE 0) |->
        min_threshold + i - 1]

validators_count == number_of_layers * quorum_size
min_quorum_threshold == quorum_size \div 2 + 1
max_quorum_threshold == quorum_size

\* inner loop counting only the threshold equal to the quorum's count
evaluate_thresholds_exact(ct, current_threshold, thresholds) ==
    [t \in DOMAIN ct |->
        IF t \in Range(thresholds) /\ current_threshold = t THEN ct[t] + 1 ELSE ct[t]]

\* inner loop with a strict comparison
evaluate_thresholds_strict(ct, current_threshold, thresholds) ==
    [t \in DOMAIN ct |->
        IF t \in Range(thresholds) /\ current_threshold > t THEN ct[t] + 1 ELSE ct[t]]

\* lines 144-146: the counters after the threshold loop of one quorum
evaluate_thresholds(ct, current_threshold, thresholds) ==
    [t \in DOMAIN ct |->
        IF t \in Range(thresholds) /\ current_threshold >= t THEN ct[t] + 1 ELSE ct[t]]

\* the flag never set: no break
is_corrupted_never(current_threshold, thresholds) == FALSE

\* lines 142-147: the flag is_corrupted after the threshold loop of one quorum
is_corrupted(current_threshold, thresholds) ==
    \E t \in Range(thresholds) : current_threshold >= t

\* history bookkeeping: does some quorum of combination c reach threshold t
SomeQuorumReaches(c, q, t) ==
    \E j \in 1..Len(split_into_layers(c, q)) : Sum(split_into_layers(c, q)[j]) >= t

----------------------------------------------------------------------------
(* simulate() *)

FnIdle ==
    /\ fn_pc = "idle"
    /\ fn_validators = 0
    /\ fn_corrupted = 0
    /\ fn_quorum = 1
    /\ fn_combination = << >>
    /\ fn_layers = << >>

Init ==
    /\ pc = "start"
    /\ iterations \in 0..MaxIterations
    /\ number_of_layers \in 1..MaxLayers
    /\ quorum_size \in 1..MaxQuorumSize
    /\ generator \in {"binom", "fixed"}
    /\ number_of_corrupted \in 0..(number_of_layers * quorum_size + 1)
    /\ (generator = "binom" => number_of_corrupted = 0)
    /\ corrupted_thresholds = << >>
    /\ yielded = 0
    /\ combination = << >>
    /\ quorum_idx = 0
    /\ result = [threshold |-> << >>, attack_successful_prob |-> << >>]
    /\ iteration_start = << >>
    /\ scenario_hits = << >>
    /\ FnIdle

\* lines 124-136: result, validators_count, the counter list, the threshold bounds
Setup ==
    /\ pc = "start"
    /\ pc' = "combinations"
    /\ corrupted_thresholds' = [t \in 0..validators_count |-> 0]
    /\ iteration_start' = [t \in 0..validators_count |-> 0]
    /\ scenario_hits' = [t \in 0..validators_count |-> 0]
    /\ UNCHANGED <<iterations, number_of_layers, quorum_size, generator,
                   number_of_corrupted, yielded, combination, quorum_idx, result>>
    /\ UNCHANGED fn_vars

\* line 138 with lines 88-90: the generator yields a count and the next
\* combination is built from it
NextCombination ==
    /\ pc = "combinations"
    /\ yielded < generator_len(generator, validators_count, iterations, number_of_corrupted)
    /\ \E k \in generator_values(generator, validators_count, iterations, number_of_corrupted) :
         \E c \in create_random_corrupted_combination(validators_count, k) :
            /\ combination' = c
            /\ scenario_hits' =
                 [t \in DOMAIN scenario_hits |->
                    IF SomeQuorumReaches(c, quorum_size, t)
                    THEN scenario_hits[t] + 1 ELSE scenario_hits[t]]
    /\ yielded' = yielded + 1
    /\ quorum_idx' = 0
    /\ iteration_start' = corrupted_thresholds
    /\ pc' = IF Len(split_into_layers(combination', quorum_size)) > 0
             THEN "quorums" ELSE "combinations"
    /\ UNCHANGED <<iterations, number_of_layers, quorum_size, generator,
                   number_of_corrupted, corrupted_thresholds, result>>
    /\ UNCHANGED fn_vars

\* lines 139-151: the body of the quorum loop for the next quorum
EvalQuorum ==
    /\ pc = "quorums"
    /\ LET layers == split_into_layers(combination, quorum_size)
           quorum == layers[quorum_idx + 1]
           current_threshold == Sum(quorum)
           thresholds == threshold_range_from_to(min_quorum_threshold, max_quorum_threshold)
       IN /\ corrupted_thresholds' =
                evaluate_thresholds(corrupted_thresholds, current_threshold, thresholds)
          /\ quorum_idx' = quorum_idx + 1
          /\ pc' = IF is_corrupted(current_threshold, thresholds)
                      \/ quorum_idx + 1 = Len(layers)
                   THEN "combinations" ELSE "quorums"
    /\ UNCHANGED <<iterations, number_of_layers, quorum_size, generator,
                   number_of_corrupted, yielded, combination, result,
                   iteration_start, scenario_hits>>
    /\ UNCHANGED fn_vars

\* lines 156-164: the generator is exhausted; counts become probabilities.
\* A probability is kept as the pair <<successful_corrupted, iterations>> of
\* the division at line 158, which raises ZeroDivisionError for iterations = 0
\* at the first threshold (the range is non-empty for quorum_size >= 1).
Finalize ==
    /\ pc = "combinations"
    /\ yielded >= generator_len(generator, validators_count, iterations, number_of_corrupted)
    /\ LET thresholds == threshold_range_from_to(min_quorum_threshold, max_quorum_threshold)
       IN IF iterations = 0 /\ Len(thresholds) > 0
          THEN /\ pc' = "ZeroDivisionError"
               /\ UNCHANGED result
          ELSE /\ pc' = "done"
               /\ result' = [threshold |-> thresholds,
                             attack_successful_prob |->
                                [i \in 1..Len(thresholds) |->
                                    <<corrupted_thresholds[thresholds[i]], iterations>>]]
    /\ UNCHANGED <<iterations, number_of_layers, quorum_size, generator,
                   number_of_corrupted, corrupted_thresholds, yielded, combination,
                   quorum_idx, iteration_start, scenario_hits>>
    /\ UNCHANGED fn_vars

Next == Setup \/ NextCombination \/ EvalQuorum \/ Finalize

Spec == Init /\ [][Next]_vars

----------------------------------------------------------------------------
(* Direct calls of the pure helpers *)

SimIdle ==
    /\ pc = "idle"
    /\ iterations = 0
    /\ number_of_layers = 0
    /\ quorum_size = 1
    /\ generator = "binom"
    /\ number_of_corrupted = 0
    /\ corrupted_thresholds = << >>
    /\ yielded = 0
    /\ combination = << >>
    /\ quorum_idx = 0
    /\ result = [threshold |-> << >>, attack_successful_prob |-> << >>]
    /\ iteration_start = << >>
    /\ scenario_hits = << >>

FnInit ==
    /\ SimIdle
    /\ fn_pc = "call"
    /\ fn_validators \in 0..MaxValidators
    /\ fn_corrupted \in 0..(MaxValidators + 1)
    /\ fn_quorum \in 1..MaxQuorumSize
    /\ fn_combination = << >>
    /\ fn_layers = << >>

\* a call create_random_corrupted_combination(fn_validators, fn_corrupted)
CallCreateCombination ==
    /\ fn_pc = "call"
    /\ fn_combination' \in create_random_corrupted_combination(fn_validators, fn_corrupted)
    /\ fn_pc' = "combination"
    /\ UNCHANGED <<fn_validators, fn_corrupted, fn_quorum, fn_layers>>
    /\ UNCHANGED sim_vars

\* list(split_into_layers(fn_combination, fn_quorum))
CallSplitIntoLayers ==
    /\ fn_pc = "combination"
    /\ fn_layers' = split_into_layers(fn_combination, fn_quorum)
    /\ fn_pc' = "layers"
    /\ UNCHANGED <<fn_validators, fn_corrupted, fn_quorum, fn_combination>>
    /\ UNCHANGED sim_vars

FnNext == CallCreateCombination \/ CallSplitIntoLayers

SpecFn == FnInit /\ [][FnNext]_vars

----------------------------------------------------------------------------
(* Properties *)

Thresholds == min_quorum_threshold..max_quorum_threshold
Layers == split_into_layers(combination, quorum_size)
Finished == pc \in {"done", "ZeroDivisionError"}

\* C1: the hit counters are monotonically non-increasing in the threshold
\* after every step of simulate, and so is the returned curve: for t1 < t2 in
\* [quorum_size//2 + 1, quorum_size], probability(t1) >= probability(t2).
C1_Monotone ==
    /\ pc # "start" =>
          \A t1 \in Thresholds : \A t2 \in Thresholds :
              t1 < t2 => corrupted_thresholds[t1] >= corrupted_thresholds[t2]
    /\ pc = "done" =>
          \A i \in 1..Len(result.threshold) : \A j \in 1..Len(result.threshold) :
              result.threshold[i] < result.threshold[j] =>
                 /\ result.attack_successful_prob[i][2] = result.attack_successful_prob[j][2]
                 /\ result.attack_successful_prob[i][1] >= result.attack_successful_prob[j][1]

C1_Witness ==
    /\ pc = "done"
    /\ \E i \in 1..Len(result.threshold) : \E j \in 1..Len(result.threshold) :
          /\ result.threshold[i] < result.threshold[j]
          /\ result.attack_successful_prob[i][1] > result.attack_successful_prob[j][1]
          /\ result.attack_successful_prob[j][1] > 0

\* C2: when simulate finishes, the hit counter of every threshold t equals the
\* number of iterations whose assignment has at least one quorum with
\* corruption count >= t.
C2_CountsAllScenarios ==
    pc = "done" =>
       \A t \in Thresholds : corrupted_thresholds[t] = scenario_hits[t]

\* C3: every returned probability lies in [0, 1]: 0 <= hit_count(t) <= iterations
\* at finalization, whichever generator feeds the driver.
C3_ProbabilityBounds ==
    pc = "done" =>
       \A i \in 1..Len(result.attack_successful_prob) :
          /\ result.attack_successful_prob[i][2] = iterations
          /\ 0 <= result.attack_successful_prob[i][1]
          /\ result.attack_successful_prob[i][1] <= iterations

\* C4: saturation: fed by the fixed generator with number_of_corrupted =
\* quorum_size * layers, simulate returns probability 1 for every threshold,
\* that is hit_count(t) = iterations.
C4_Saturation ==
    (pc = "done" /\ generator = "fixed" /\ number_of_corrupted = validators_count) =>
       \A i \in 1..Len(result.attack_successful_prob) :
          result.attack_successful_prob[i][1] = iterations

\* C5: the two generators yield the same number of values for the same
\* iterations value, so the driver performs exactly `iterations` iterations
\* whichever one is wired in.
C5_SameNumberOfValues ==
    Finished => yielded = iterations

\* C6: simulate called with iterations = 0 is rejected before any simulation
\* work: no combination is ever drawn and the division of the finalization is
\* never reached.
C6_ZeroIterationsRejected ==
    iterations = 0 => (yielded = 0 /\ ~Finished)

\* C7: create_random_corrupted_combination(N, k) returns a list of length N
\* over {0,1} with exactly min(k, N) ones, whatever the sampler draws.
C7_CombinationValid ==
    fn_pc \in {"combination", "layers"} =>
       /\ Len(fn_combination) = fn_validators
       /\ \A i \in 1..Len(fn_combination) : fn_combination[i] \in {0, 1}
       /\ Cardinality({i \in 1..Len(fn_combination) : fn_combination[i] = 1})
             = Min(fn_corrupted, fn_validators)

C7_Witness ==
    /\ fn_pc = "combination"
    /\ fn_validators >= 4
    /\ fn_corrupted >= 2
    /\ fn_corrupted < fn_validators
    /\ fn_combination[1] = 0
    /\ fn_combination[fn_validators] = 1

\* C8: for a list of length N and q >= 1 with N mod q = 0, split_into_layers
\* yields exactly N/q slices, each of length q, whose concatenation in yield
\* order is the input list.
C8_PartitionCoverage ==
    (fn_pc = "layers" /\ fn_validators % fn_quorum = 0) =>
       /\ Len(fn_layers) = fn_validators \div fn_quorum
       /\ \A j \in 1..Len(fn_layers) : Len(fn_layers[j]) = fn_quorum
       /\ Concat(fn_layers) = fn_combination

C8_Witness ==
    /\ fn_pc = "layers"
    /\ fn_validators = 6
    /\ fn_quorum = 3
    /\ Len(fn_layers) = 2
    /\ fn_layers[1] = <<0, 1, 0>>
    /\ fn_layers[2] = <<1, 1, 0>>

\* C9: within one iteration quorums are examined in partition order and none
\* is examined after one that hit a threshold; each counter grows by at most 1
\* per iteration and only the first quorum with count >= quorum_size//2 + 1
\* contributes.
C9_EarlyBreak ==
    pc # "start" =>
       /\ quorum_idx <= Len(Layers)
       /\ \A j \in 1..(quorum_idx - 1) : Sum(Layers[j]) < min_quorum_threshold
       /\ \A t \in DOMAIN corrupted_thresholds :
             corrupted_thresholds[t] - iteration_start[t] =
                IF /\ quorum_idx >= 1
                   /\ t \in Thresholds
                   /\ Sum(Layers[quorum_idx]) >= t
                THEN 1 ELSE 0

C9_Witness ==
    /\ pc = "combinations"
    /\ quorum_idx = 1
    /\ Len(Layers) = 2
    /\ Sum(Layers[1]) = min_quorum_threshold
    /\ Sum(Layers[2]) > Sum(Layers[1])
    /\ corrupted_thresholds[min_quorum_threshold] = iteration_start[min_quorum_threshold] + 1
    /\ corrupted_thresholds[max_quorum_threshold] = iteration_start[max_quorum_threshold]

\* C10: after any number of completed iterations the counter of the lowest
\* threshold equals the number of iterations processed so far in which some
\* quorum has corruption count >= quorum_size//2 + 1.
C10_LowestThresholdExact ==
    (pc = "combinations" \/ Finished) =>
       corrupted_thresholds[min_quorum_threshold] = scenario_hits[min_quorum_threshold]

C10_Witness ==
    /\ pc = "combinations"
    /\ yielded = 2
    /\ quorum_idx = 2
    /\ Sum(Layers[1]) < min_quorum_threshold
    /\ Sum(Layers[2]) >= min_quorum_threshold
    /\ corrupted_thresholds[min_quorum_threshold] = 1
    /\ scenario_hits[min_quorum_threshold] = 1

====
